---- MODULE Spec2Model ----
(***************************************************************************)
(* Room reservation backend: reservation mutations (REST views and         *)
(* management commands), the post_save / post_delete signal handlers that  *)
(* broadcast change events through the channel layer, and the WebSocket    *)
(* consumers (room sessions and overview sessions) with their heartbeat    *)
(* tasks.                                                                  *)
(*                                                                         *)
(* ActivityLog rows, users and e-mail are write-only side effects that no  *)
(* property below reads; they are left out of the state.                   *)
(***************************************************************************)
EXTENDS Integers, Sequences, FiniteSets, TLC

\* ------------------------------------------------------------------ bounds
MaxRes == 2          \* reservation primary keys handed out: 1..MaxRes
MaxEvents == 4       \* change events emitted in one behaviour

MaxSecond == 1030    \* the classifier is asked about the seconds 0..MaxSecond
MaxClock == 40       \* the status cache is followed up to this second

Rooms == {1, 2}
Dates == {1, 2}
Times == 0 .. 2
\* The (start_time, end_time) pairs requests ask for: two back-to-back slots.
Slots == {<<0, 1>>, <<1, 2>>}
\* Slots in seconds of the day, for the classifier: 16 minutes, a slot right
\* after it, and one that ends within a minute.
StatusSlots == {<<0, 960>>, <<960, 1020>>, <<30, 990>>}
StatusInstants == {0, 29, 30, 31, 959, 960, 961, 990, 1020, 1021}
\* The seconds between two looks at the clock.
TickSteps == {5}
Sessions == {"s1", "s2"}

None == 0            \* Python None where a reservation id is expected

\* Which group_send of one publish raises (the broker fails before it).
FailModes == {"none", "room", "overview"}

VARIABLES
    rooms,          \* Room.is_active, by room id
    reservations,   \* Reservation rows, by primary key
    nextId,         \* next primary key of Reservation
    nEv,            \* number of change events emitted so far
    lastOp,         \* the last request / command and what it did
    kind,           \* session -> "none" | "room" | "overview"
    room_id,        \* session -> room id of a room session (0 otherwise)
    pc,             \* session -> position of the consumer
    hb,             \* session -> state of heartbeat_task
    cancelReq,      \* session -> heartbeat_task.cancel() was called
    groups,         \* channel layer: group name -> set of channels
    inbox,          \* channel layer: channel -> queued group messages
    relayed,        \* session -> events relayed to the client, in order
    first,          \* session -> type of its first outbound message
    outbound,       \* session -> the types of the messages it was sent
    snapshot_sent,  \* session -> its initial snapshot was sent
    recipients,     \* event id -> sessions subscribed to a group it was sent to
    missed,         \* session -> a lost publish is not yet covered by a heartbeat
    hbStale,        \* session -> the heartbeat's computed snapshot predates a lost publish
    clock,          \* timezone.now(): the date and the second of the day
    cache,          \* the cache entry 'room_status_all', if any
    status_out,     \* the last answer to a status request
    status_prev     \* the room_status answer before the last one

vars == <<rooms, reservations, nextId, nEv, lastOp, kind, room_id, pc, hb,
          cancelReq, groups, inbox, relayed, first, outbound, snapshot_sent, recipients,
          missed, hbStale, clock, cache, status_out, status_prev>>

statusVars == <<clock, cache, status_out, status_prev>>

\* ------------------------------------------------------------- group names
RoomGroup(r) == <<"room", r>>                 \* f'room_{room_id}'
OverviewGroup == <<"rooms_overview", 0>>
GroupNames == {RoomGroup(r) : r \in Rooms} \cup {OverviewGroup}

NoOp == [op |-> "none", response |-> "none", saved |-> {}, changed |-> {},
         events |-> <<>>]

\* Optional values: Python None and a present value.
Nothing == <<>>
Some(v) == <<v>>

NoEntry == [data |-> Nothing, computed_at |-> 0, expires |-> 0]
NoAnswer == [op |-> "none", room |-> 0, data |-> Nothing, at |-> 0, computed_at |-> 0,
             stale |-> FALSE]

\* A status answer that a later write to the database has followed.
Outdated(answer) == IF answer.op = "none" THEN answer ELSE [answer EXCEPT !.stale = TRUE]

\* --------------------------------------------------------------- sequences
Perms(S) == {q \in [1 .. Cardinality(S) -> S] :
                \A i, j \in 1 .. Cardinality(S) : i # j => q[i] # q[j]}

Min(S) == CHOOSE x \in S : \A y \in S : x <= y
Max(S) == CHOOSE x \in S : \A y \in S : x >= y

\* A queryset ordered by start_time: the database may return rows with equal
\* keys in any order.
order_by_start_time(res, S) ==
    {q \in Perms(S) : \A i \in 1 .. Len(q) - 1 :
        res[q[i]].start_time <= res[q[i + 1]].start_time}

\* Reservation.Meta.ordering = ["-date", "-start_time"]
MetaBefore(a, b) ==
    \/ a.date > b.date
    \/ a.date = b.date /\ a.start_time >= b.start_time

meta_ordering(res, S) ==
    {q \in Perms(S) : \A i \in 1 .. Len(q) - 1 : MetaBefore(res[q[i]], res[q[i + 1]])}

\* ------------------------------------------------------------- classifier
Active == {"pending", "confirmed"}

today_reservations_any_status(res, room, today) ==
    {id \in DOMAIN res : res[id].room = room /\ res[id].date = today}

\* Reservation.objects.filter(room=room, date=today, status__in=[...])
today_reservations(res, room, today) ==
    {id \in DOMAIN res : /\ res[id].room = room
                         /\ res[id].date = today
                         /\ res[id].status \in Active}

Matches(res, S, now) ==
    {id \in S : res[id].start_time <= now /\ now <= res[id].end_time}

current_reservation_last(res, q, now) ==
    LET hits == {i \in 1 .. Len(q) : q[i] \in Matches(res, {q[j] : j \in 1 .. Len(q)}, now)}
    IN  IF hits = {} THEN None ELSE q[Max(hits)]

\* The loop "for res in today_reservations: if start <= now <= end: ... break"
current_reservation(res, q, now) ==
    LET hits == {i \in 1 .. Len(q) : /\ res[q[i]].start_time <= now
                                     /\ now <= res[q[i]].end_time}
    IN  IF hits = {} THEN None ELSE q[Min(hits)]


\* The loop "for res in today_reservations: if res.start_time > current_time"
next_reservation(res, q, now) ==
    LET hits == {i \in 1 .. Len(q) : res[q[i]].start_time > now}
    IN  IF hits = {} THEN None ELSE q[Min(hits)]

\* int(x) of the quotient num / den: truncation toward zero.
int(num, den) == IF num >= 0 THEN num \div den ELSE -((-num) \div den)

\* time.strftime('%H:%M') of a time given in seconds of the day: the hour and
\* the minute; the seconds are dropped.
strftime_HM(t) == <<t \div 3600, (t \div 60) % 60>>

next_available_of_next_first(res, cur, nxt) ==
    IF nxt # None THEN Some(strftime_HM(res[nxt].start_time))
    ELSE IF cur # None THEN Some(strftime_HM(res[cur].end_time))
    ELSE Nothing

next_available(res, cur, nxt) ==
    IF cur # None THEN Some(strftime_HM(res[cur].end_time))
    ELSE IF nxt # None THEN Some(strftime_HM(res[nxt].start_time))
    ELSE Nothing

occupancy_status_below_15(seconds_left) ==
    IF seconds_left < 15 * 60 THEN "ending_soon" ELSE "occupied"

\* "if minutes_diff <= 15", with minutes_diff = total_seconds() / 60
occupancy_status(seconds_left) ==
    IF seconds_left <= 15 * 60 THEN "ending_soon" ELSE "occupied"

time_until_free_rounded_up(seconds_left) == int(seconds_left + 59, 60)

\* time_until_free = int(minutes_diff)
time_until_free(seconds_left) == int(seconds_left, 60)

\* One room's status dictionary, from the room's reservations of today in
\* the order q of the queryset.
room_status_entry(res, room, q, now) ==
    LET cur == current_reservation(res, q, now)
        nxt == next_reservation(res, q, now)
        is_occupied == cur # None
        seconds_left == IF is_occupied THEN res[cur].end_time - now ELSE 0
    IN  [room_id            |-> room,
         is_occupied        |-> is_occupied,
         occupancy_status   |-> IF is_occupied THEN occupancy_status(seconds_left)
                                ELSE "free",
         time_until_free    |-> IF is_occupied THEN Some(time_until_free(seconds_left))
                                ELSE Nothing,
         reservations_today |-> Len(q),
         next_available     |-> next_available(res, cur, nxt),
         current_attendees  |-> IF is_occupied THEN res[cur].attendees ELSE 0]

\* RoomConsumer.get_room_status: None for a missing or inactive room.
get_room_status(res, rms, room, q, now) ==
    IF ~rms[room] THEN Nothing ELSE Some(room_status_entry(res, room, q, now))

\* Room.get_current_occupancy_status: the first confirmed reservation of the
\* room and of today with start_time <= now <= end_time, in the order q of
\* Meta.ordering; timedelta.seconds // 60 of the time left.
get_current_occupancy_status(res, q, now) ==
    IF q = <<>>
    THEN [occupied |-> FALSE, reservation |-> None, time_until_free |-> 0]
    ELSE [occupied |-> TRUE, reservation |-> q[1],
          time_until_free |-> ((res[q[1]].end_time - now) % 86400) \div 60]

all_rooms_status_entry_until_end(res, room, q, now) ==
    LET holding == {i \in 1 .. Len(q) : /\ res[q[i]].start_time <= now
                                        /\ now < res[q[i]].end_time}
        later == {i \in 1 .. Len(q) : res[q[i]].start_time > now}
        current == IF holding = {} THEN None ELSE q[Min(holding)]
        following == IF later = {} THEN None ELSE q[Min(later)]
        is_occupied == holding # {}
        seconds_left == IF is_occupied THEN res[current].end_time - now ELSE 0
    IN  [room_id            |-> room,
         is_occupied        |-> is_occupied,
         occupancy_status   |-> IF ~is_occupied THEN "free"
                                ELSE IF seconds_left <= 15 * 60 THEN "ending_soon"
                                ELSE "occupied",
         time_until_free    |-> IF is_occupied THEN Some(int(seconds_left, 60))
                                ELSE Nothing,
         reservations_today |-> Len(q),
         next_available     |-> IF is_occupied /\ current # None
                                THEN Some(strftime_HM(res[current].end_time))
                                ELSE IF following # None
                                THEN Some(strftime_HM(res[following].start_time))
                                ELSE Nothing,
         current_attendees  |-> IF current # None THEN res[current].attendees ELSE 0]

\* RoomsOverviewConsumer.get_all_rooms_status, the body of "for room in
\* rooms": the overview's own copy of the computation.  The room's name,
\* building, floor and capacity are copied from the room row.
all_rooms_status_entry(res, room, q, now) ==
    LET holding == {i \in 1 .. Len(q) : /\ res[q[i]].start_time <= now
                                        /\ now <= res[q[i]].end_time}
        later == {i \in 1 .. Len(q) : res[q[i]].start_time > now}
        current == IF holding = {} THEN None ELSE q[Min(holding)]
        following == IF later = {} THEN None ELSE q[Min(later)]
        is_occupied == holding # {}
        seconds_left == IF is_occupied THEN res[current].end_time - now ELSE 0
    IN  [room_id            |-> room,
         is_occupied        |-> is_occupied,
         occupancy_status   |-> IF ~is_occupied THEN "free"
                                ELSE IF seconds_left <= 15 * 60 THEN "ending_soon"
                                ELSE "occupied",
         time_until_free    |-> IF is_occupied THEN Some(int(seconds_left, 60))
                                ELSE Nothing,
         reservations_today |-> Len(q),
         next_available     |-> IF is_occupied /\ current # None
                                THEN Some(strftime_HM(res[current].end_time))
                                ELSE IF following # None
                                THEN Some(strftime_HM(res[following].start_time))
                                ELSE Nothing,
         current_attendees  |-> IF current # None THEN res[current].attendees ELSE 0]

\* RoomsOverviewConsumer.get_all_rooms_status: one entry per room of
\* Room.objects.filter(is_active=True), rooms in primary-key order.
RECURSIVE get_all_rooms_status(_, _, _, _, _)
get_all_rooms_status(res, rms, qs, now, r) ==
    IF r > Max(Rooms) THEN <<>>
    ELSE (IF rms[r] THEN <<all_rooms_status_entry(res, r, qs[r], now)>> ELSE <<>>)
         \o get_all_rooms_status(res, rms, qs, now, r + 1)

\* RoomViewSet.room_status, the body of "for room in rooms": the view's own
\* copy of the computation.
room_status_view_entry(res, room, q, now) ==
    LET holding == {i \in 1 .. Len(q) : /\ res[q[i]].start_time <= now
                                        /\ now <= res[q[i]].end_time}
        later == {i \in 1 .. Len(q) : res[q[i]].start_time > now}
        current == IF holding = {} THEN None ELSE q[Min(holding)]
        following == IF later = {} THEN None ELSE q[Min(later)]
        is_occupied == holding # {}
        seconds_left == IF is_occupied THEN res[current].end_time - now ELSE 0
    IN  [room_id            |-> room,
         is_occupied        |-> is_occupied,
         occupancy_status   |-> IF ~is_occupied THEN "free"
                                ELSE IF seconds_left <= 15 * 60 THEN "ending_soon"
                                ELSE "occupied",
         time_until_free    |-> IF is_occupied THEN Some(int(seconds_left, 60))
                                ELSE Nothing,
         reservations_today |-> Len(q),
         next_available     |-> IF is_occupied /\ current # None
                                THEN Some(strftime_HM(res[current].end_time))
                                ELSE IF following # None
                                THEN Some(strftime_HM(res[following].start_time))
                                ELSE Nothing,
         current_attendees  |-> IF current # None THEN res[current].attendees ELSE 0]

\* The status list of room_status: one entry per active room, rooms in
\* primary-key order, qs[r] being the order of room r's queryset.
RECURSIVE room_statuses(_, _, _, _, _)
room_statuses(res, rms, qs, now, r) ==
    IF r > Max(Rooms) THEN <<>>
    ELSE (IF rms[r] THEN <<room_status_view_entry(res, r, qs[r], now)>> ELSE <<>>)
         \o room_statuses(res, rms, qs, now, r + 1)

\* ------------------------------------------------------------- broadcaster
MessageType == [created   |-> "reservation_created",
                confirmed |-> "reservation_confirmed",
                cancelled |-> "reservation_cancelled",
                deleted   |-> "reservation_deleted"]

group_send_front(inb, grp, g, msg) ==
    [c \in Sessions |-> IF c \in grp[g] THEN <<msg>> \o inb[c] ELSE inb[c]]

group_send_to_all(inb, grp, g, msg) ==
    [c \in Sessions |-> Append(inb[c], msg)]

\* channel_layer.group_send: one copy of msg is queued for every channel of
\* the group.
group_send(inb, grp, g, msg) ==
    [c \in Sessions |-> IF c \in grp[g] THEN Append(inb[c], msg) ELSE inb[c]]

SendBothOverviewFirst(inb, grp, room_message, overview_message, room, fail) ==
    IF fail = "overview"
    THEN [inbox |-> inb, sent |-> {}, raised |-> TRUE, attempted |-> <<OverviewGroup>>]
    ELSE LET inb1 == group_send(inb, grp, OverviewGroup, overview_message)
         IN  IF fail = "room"
             THEN [inbox |-> inb1, sent |-> {OverviewGroup}, raised |-> TRUE,
                   attempted |-> <<OverviewGroup, RoomGroup(room)>>]
             ELSE [inbox  |-> group_send(inb1, grp, RoomGroup(room), room_message),
                   sent   |-> {RoomGroup(room), OverviewGroup},
                   raised |-> FALSE,
                   attempted |-> <<OverviewGroup, RoomGroup(room)>>]

\* The two group_send calls of one try block, in their order: a send that
\* raises ends the block.  'attempted' lists the groups whose send was called.
SendBoth(inb, grp, room_message, overview_message, room, fail) ==
    IF fail = "room"
    THEN [inbox |-> inb, sent |-> {}, raised |-> TRUE, attempted |-> <<RoomGroup(room)>>]
    ELSE LET inb1 == group_send(inb, grp, RoomGroup(room), room_message)
         IN  IF fail = "overview"
             THEN [inbox |-> inb1, sent |-> {RoomGroup(room)}, raised |-> TRUE,
                   attempted |-> <<RoomGroup(room), OverviewGroup>>]
             ELSE [inbox  |-> group_send(inb1, grp, OverviewGroup, overview_message),
                   sent   |-> {RoomGroup(room), OverviewGroup},
                   raised |-> FALSE,
                   attempted |-> <<RoomGroup(room), OverviewGroup>>]

RoomMessage(ev, payload) ==
    [type |-> MessageType[ev.event_type], id |-> ev.id,
     event_type |-> ev.event_type, reservation_id |-> ev.rid,
     room_id |-> ev.room, reservation |-> payload]

OverviewMessage(ev, payload) ==
    [type |-> "room_update", id |-> ev.id,
     event_type |-> ev.event_type, reservation_id |-> None,
     room_id |-> ev.room, reservation |-> payload]

broadcast_propagating(inb, grp, ev, fail) ==
    LET r == SendBoth(inb, grp, RoomMessage(ev, TRUE), OverviewMessage(ev, TRUE),
                      ev.room, fail)
    IN  [inbox |-> r.inbox, sent |-> r.sent, raised |-> r.raised,
         attempted |-> r.attempted, propagated |-> r.raised]

broadcast_room_only(inb, grp, ev, fail) ==
    IF fail = "room"
    THEN [inbox |-> inb, sent |-> {}, raised |-> TRUE,
          attempted |-> <<RoomGroup(ev.room)>>, propagated |-> FALSE]
    ELSE [inbox |-> group_send(inb, grp, RoomGroup(ev.room), RoomMessage(ev, TRUE)),
          sent |-> {RoomGroup(ev.room)}, raised |-> FALSE,
          attempted |-> <<RoomGroup(ev.room)>>, propagated |-> FALSE]

\* broadcast_reservation_change: both sends sit in one try block whose
\* except clause logs and returns.
broadcast_reservation_change(inb, grp, ev, fail) ==
    LET r == SendBoth(inb, grp, RoomMessage(ev, TRUE), OverviewMessage(ev, TRUE),
                      ev.room, fail)
    IN  [inbox |-> r.inbox, sent |-> r.sent, raised |-> r.raised,
         attempted |-> r.attempted, propagated |-> FALSE]

\* reservation_post_delete: the same two sends, carrying identifiers only.
reservation_post_delete(inb, grp, ev, fail) ==
    LET r == SendBoth(inb, grp, RoomMessage(ev, FALSE), OverviewMessage(ev, FALSE),
                      ev.room, fail)
    IN  [inbox |-> r.inbox, sent |-> r.sent, raised |-> r.raised,
         attempted |-> r.attempted, propagated |-> FALSE]

post_save_ignoring_created(created, status) ==
    IF status = "confirmed" THEN <<"confirmed">>
    ELSE IF status = "cancelled" THEN <<"cancelled">>
    ELSE <<>>

\* reservation_post_save: the event types one save() broadcasts.
reservation_post_save(created, status) ==
    IF created THEN <<"created">>
    ELSE IF status = "confirmed" THEN <<"confirmed">>
    ELSE IF status = "cancelled" THEN <<"cancelled">>
    ELSE <<>>

\* The events of saving the rows q[1], q[2], ... of res in turn.
RECURSIVE SaveEvents(_, _, _, _)
SaveEvents(res, q, created, i) ==
    IF i > Len(q) THEN <<>>
    ELSE LET types == reservation_post_save(created, res[q[i]].status)
         IN  [j \in 1 .. Len(types) |->
                 [event_type |-> types[j], rid |-> q[i], room |-> res[q[i]].room]]
             \o SaveEvents(res, q, created, i + 1)

\* Publishing evs[i], evs[i+1], ... in turn; fails[i] says which send of the
\* i-th publish raises.
RECURSIVE Emit(_, _, _, _, _, _)
Emit(inb, grp, evs, fails, base, i) ==
    IF i > Len(evs) THEN [inbox |-> inb, log |-> <<>>]
    ELSE LET ev == [id |-> base + i, event_type |-> evs[i].event_type,
                    rid |-> evs[i].rid, room |-> evs[i].room]
             out == IF ev.event_type = "deleted"
                    THEN reservation_post_delete(inb, grp, ev, fails[i])
                    ELSE broadcast_reservation_change(inb, grp, ev, fails[i])
             rest == Emit(out.inbox, grp, evs, fails, base, i + 1)
         IN  [inbox |-> rest.inbox,
              log   |-> <<[id |-> ev.id, event_type |-> ev.event_type,
                           rid |-> ev.rid, room |-> ev.room, sent |-> out.sent,
                           attempted |-> out.attempted,
                           raised |-> out.raised, propagated |-> out.propagated]>>
                        \o rest.log]

\* ---------------------------------------------------------------- sessions
SessionGroup(s) == IF kind[s] = "room" THEN RoomGroup(room_id[s]) ELSE OverviewGroup

InScope(s, e) == kind[s] = "overview" \/ (kind[s] = "room" /\ room_id[s] = e.room)

\* The sessions that are connecting or Open, and subscribed to a group the
\* logged event e was sent to, when e is published.
Subscribers(e) ==
    {s \in Sessions : /\ pc[s] \in {"joined", "open"}
                      /\ InScope(s, e)
                      /\ SessionGroup(s) \in e.sent}

\* An Open session whose group was not sent one of the logged events.
LostFor(s, log) ==
    /\ pc[s] = "open"
    /\ \E i \in 1 .. Len(log) : InScope(s, log[i]) /\ SessionGroup(s) \notin log[i].sent

\* ------------------------------------------------------ reservation writes
\* The saved rows that were inserted, deleted or given another status.
StatusChanged(res, res2, saved) ==
    {rid \in saved : \/ rid \notin DOMAIN res
                     \/ rid \notin DOMAIN res2
                     \/ res[rid].status # res2[rid].status}

\* The rows res2 are committed, the signal handlers run for the saved rows
\* and the request answers.
Commit(op, res2, saved, evs) ==
    /\ nEv + Len(evs) <= MaxEvents
    /\ \E fails \in [1 .. Len(evs) -> FailModes] :
          LET out == Emit(inbox, groups, evs, fails, nEv, 1)
          IN  /\ reservations' = res2
              /\ inbox' = out.inbox
              /\ nEv' = nEv + Len(evs)
              /\ lastOp' = [op |-> op,
                            response |-> IF \E i \in 1 .. Len(out.log) : out.log[i].propagated
                                         THEN "error" ELSE "ok",
                            saved |-> saved,
                            changed |-> StatusChanged(reservations, res2, saved),
                            events |-> out.log]
              /\ recipients' = recipients \o [i \in 1 .. Len(out.log) |->
                                                 Subscribers(out.log[i])]
              /\ missed' = [s \in Sessions |-> missed[s] \/ LostFor(s, out.log)]
              /\ hbStale' = [s \in Sessions |-> hbStale[s] \/ LostFor(s, out.log)]
    /\ UNCHANGED <<rooms, kind, room_id, pc, hb, cancelReq, groups, relayed, first, outbound,
                   snapshot_sent>>
    /\ status_out' = Outdated(status_out)
    /\ UNCHANGED <<clock, cache, status_prev>>

Reject(op) ==
    /\ lastOp' = [op |-> op, response |-> "rejected", saved |-> {}, changed |-> {},
                  events |-> <<>>]
    /\ UNCHANGED <<rooms, reservations, nextId, nEv, kind, room_id, pc, hb, cancelReq,
                   groups, inbox, relayed, first, outbound, snapshot_sent, recipients, missed,
                   hbStale>>
    /\ UNCHANGED statusVars

NewReservation(r, d, st, en) ==
    [room |-> r, date |-> d, start_time |-> st, end_time |-> en,
     status |-> "pending", attendees |-> 1, capacity_used |-> 0,
     reminder_sent |-> FALSE]

overlapping_confirmed_only(res, r, d, st, en) ==
    \E id \in today_reservations(res, r, d) :
        /\ res[id].status = "confirmed"
        /\ res[id].start_time < en /\ res[id].end_time > st

\* Q(start_time__lt=end_time, end_time__gt=start_time) over the pending and
\* confirmed rows of the room and date.
overlapping(res, r, d, st, en) ==
    \E id \in today_reservations(res, r, d) :
        res[id].start_time < en /\ res[id].end_time > st

\* ReservationViewSet.create
Create(r, d, st, en) ==
    IF ~rooms[r] \/ overlapping(reservations, r, d, st, en)
    THEN Reject("create")
    ELSE /\ nextId <= MaxRes
         /\ nextId' = nextId + 1
         /\ LET res2 == [id \in DOMAIN reservations \cup {nextId} |->
                            IF id = nextId THEN NewReservation(r, d, st, en)
                            ELSE reservations[id]]
            IN  Commit("create", res2, {nextId}, SaveEvents(res2, <<nextId>>, TRUE, 1))

\* The bodies of POST reservations: the complete ones, for either room and
\* four slots, and those with one defect: the room id missing or naming no
\* room, the date or a time missing, purpose or contactEmail missing.
ValidRequests ==
    [room_id       : {Some(r) : r \in Rooms},
     date          : {Some(1)},
     start_time    : {Some(0), Some(1)},
     end_time      : {Some(1), Some(2)},
     purpose       : {TRUE},
     contact_email : {TRUE}]

BaseRequest == [room_id |-> Some(1), date |-> Some(1), start_time |-> Some(0),
                end_time |-> Some(2), purpose |-> TRUE, contact_email |-> TRUE]

DefectiveRequests ==
    {[BaseRequest EXCEPT !.room_id = Nothing],
     [BaseRequest EXCEPT !.room_id = Some(Max(Rooms) + 1)],
     [BaseRequest EXCEPT !.date = Nothing],
     [BaseRequest EXCEPT !.start_time = Nothing],
     [BaseRequest EXCEPT !.end_time = Nothing],
     [BaseRequest EXCEPT !.purpose = FALSE],
     [BaseRequest EXCEPT !.contact_email = FALSE]}

CreateRequests == ValidRequests \cup DefectiveRequests

\* all([reservation_date, start_time, end_time, purpose, contact_email])
all_required(data) ==
    /\ data.date # Nothing
    /\ data.start_time # Nothing
    /\ data.end_time # Nothing
    /\ data.purpose
    /\ data.contact_email

\* ReservationViewSet.create, from the request body on: 400 without a room
\* id, 404 for a room that does not exist or is inactive, 400 when a required
\* field is missing; then the overlap check and the insert.
CreateRequest(data) ==
    IF data.room_id = Nothing
    THEN Reject("create")
    ELSE IF data.room_id[1] \notin Rooms \/ ~rooms[data.room_id[1]]
    THEN Reject("create")
    ELSE IF ~all_required(data)
    THEN Reject("create")
    ELSE Create(data.room_id[1], data.date[1], data.start_time[1], data.end_time[1])

\* create_recurring_reservation, from the expanded reservation_dates on: a
\* date with an overlap is a conflict, every other date gets a reservation.
RECURSIVE RecurringRows(_, _, _, _, _, _)
RecurringRows(res, r, ds, st, en, id) ==
    IF ds = {} THEN res
    ELSE LET d == Min(ds)
         IN  IF overlapping(res, r, d, st, en)
             THEN RecurringRows(res, r, ds \ {d}, st, en, id)
             ELSE RecurringRows([k \in DOMAIN res \cup {id} |->
                                    IF k = id THEN NewReservation(r, d, st, en) ELSE res[k]],
                                r, ds \ {d}, st, en, id + 1)

CreateRecurring(r, ds, st, en) ==
    IF ~rooms[r]
    THEN Reject("recurring")
    ELSE LET res2 == RecurringRows(reservations, r, ds, st, en, nextId)
             made == DOMAIN res2 \ DOMAIN reservations
             q    == [i \in 1 .. Cardinality(made) |-> nextId + i - 1]
         IN  /\ nextId + Cardinality(made) - 1 <= MaxRes
             /\ nextId' = nextId + Cardinality(made)
             /\ Commit("recurring", res2, made, SaveEvents(res2, q, TRUE, 1))

\* reservation_confirm
Confirm(rid) ==
    IF rid \notin DOMAIN reservations
    THEN Reject("confirm")
    ELSE LET res2 == [reservations EXCEPT ![rid].status = "confirmed"]
         IN  /\ Commit("confirm", res2, {rid}, SaveEvents(res2, <<rid>>, FALSE, 1))
             /\ UNCHANGED nextId

\* ReservationViewSet.destroy
Delete(rid, owner) ==
    IF rid \notin DOMAIN reservations \/ ~owner
    THEN Reject("delete")
    ELSE LET res2 == [id \in DOMAIN reservations \ {rid} |-> reservations[id]]
         IN  /\ Commit("delete", res2, {rid},
                       <<[event_type |-> "deleted", rid |-> rid,
                          room |-> reservations[rid].room]>>)
             /\ UNCHANGED nextId

AutoCancelEveryPending(k, dry_run) ==
    LET old == {id \in DOMAIN reservations : reservations[id].status = "pending"}
    IN  IF dry_run
        THEN Reject("auto_cancel")
        ELSE \E q \in meta_ordering(reservations, old) :
                LET res2 == [id \in DOMAIN reservations |->
                                IF id \in old
                                THEN [reservations[id] EXCEPT !.status = "cancelled"]
                                ELSE reservations[id]]
                IN  /\ Commit("auto_cancel", res2, old, SaveEvents(res2, q, FALSE, 1))
                    /\ UNCHANGED nextId

\* auto_cancel_pending: created_at grows with the primary key, so the rows
\* created before the cutoff are those with a key below some k.
AutoCancel(k, dry_run) ==
    LET old == {id \in DOMAIN reservations :
                    reservations[id].status = "pending" /\ id < k}
    IN  IF dry_run
        THEN Reject("auto_cancel")
        ELSE \E q \in meta_ordering(reservations, old) :
                LET res2 == [id \in DOMAIN reservations |->
                                IF id \in old
                                THEN [reservations[id] EXCEPT !.status = "cancelled"]
                                ELSE reservations[id]]
                IN  /\ Commit("auto_cancel", res2, old, SaveEvents(res2, q, FALSE, 1))
                    /\ UNCHANGED nextId

\* check_in_reservation: today and the check-in window are the caller's
\* clock; the status test is the state's.
CheckIn(rid, in_window) ==
    IF \/ rid \notin DOMAIN reservations
       \/ ~in_window
       \/ reservations[rid].status # "confirmed"
    THEN Reject("check_in")
    ELSE LET res2 == [reservations EXCEPT ![rid].capacity_used = 1]
         IN  /\ Commit("check_in", res2, {rid}, SaveEvents(res2, <<rid>>, FALSE, 1))
             /\ UNCHANGED nextId

\* send_reservation_reminders: the confirmed, not yet reminded reservations
\* that start in the target minute.
SendReminders(d, st) ==
    LET due == {id \in DOMAIN reservations :
                    /\ reservations[id].date = d
                    /\ reservations[id].start_time = st
                    /\ reservations[id].status = "confirmed"
                    /\ ~reservations[id].reminder_sent}
    IN  IF due = {}
        THEN Reject("reminders")
        ELSE \E q \in meta_ordering(reservations, due) :
                LET res2 == [id \in DOMAIN reservations |->
                                IF id \in due
                                THEN [reservations[id] EXCEPT !.reminder_sent = TRUE]
                                ELSE reservations[id]]
                IN  /\ Commit("reminders", res2, due, SaveEvents(res2, q, FALSE, 1))
                    /\ UNCHANGED nextId

\* ------------------------------------------------------------------- rooms
RoomWriteKeepingCache(op, rooms2) ==
    /\ rooms' = rooms2
    /\ lastOp' = [op |-> op, response |-> "ok", saved |-> {}, changed |-> {},
                  events |-> <<>>]
    /\ UNCHANGED <<reservations, nextId, nEv, kind, room_id, pc, hb, cancelReq,
                   groups, inbox, relayed, first, outbound, snapshot_sent, recipients, missed,
                   hbStale>>
    /\ status_out' = Outdated(status_out)
    /\ UNCHANGED <<clock, cache, status_prev>>

\* The room rows are written and the status cache entry is deleted.
RoomWrite(op, rooms2) ==
    /\ rooms' = rooms2
    /\ lastOp' = [op |-> op, response |-> "ok", saved |-> {}, changed |-> {},
                  events |-> <<>>]
    /\ UNCHANGED <<reservations, nextId, nEv, kind, room_id, pc, hb, cancelReq,
                   groups, inbox, relayed, first, outbound, snapshot_sent, recipients, missed,
                   hbStale>>
    /\ cache' = NoEntry
    /\ status_out' = Outdated(status_out)
    /\ UNCHANGED <<clock, status_prev>>

\* AdminRoomViewSet.destroy: a soft delete, refused while the room has
\* pending or confirmed reservations from today on.
DestroyRoom(r, today) ==
    IF \E id \in DOMAIN reservations :
          /\ reservations[id].room = r
          /\ reservations[id].date >= today
          /\ reservations[id].status \in Active
    THEN Reject("room_destroy")
    ELSE RoomWrite("room_destroy", [rooms EXCEPT ![r] = FALSE])

\* AdminRoomViewSet.bulk_toggle_active
BulkToggleActive(ids, active) ==
    IF ids = {}
    THEN Reject("bulk_toggle")
    ELSE RoomWrite("bulk_toggle", [r \in Rooms |-> IF r \in ids THEN active ELSE rooms[r]])

\* --------------------------------------------------------------- consumers
\* send_json: the first message a session is sent is remembered.
Sent(s, type) ==
    /\ first' = [first EXCEPT ![s] = IF @ = "none" THEN type ELSE @]
    /\ outbound' = [outbound EXCEPT ![s] = @ \cup {type}]

\* connect: self.heartbeat_task = None until the initial snapshot is sent.
heartbeat_task_at_join == "none"

JoinWithoutGroupAdd(s, k, r, g) ==
    /\ pc[s] = "idle"
    /\ kind' = [kind EXCEPT ![s] = k]
    /\ room_id' = [room_id EXCEPT ![s] = r]
    /\ hb' = [hb EXCEPT ![s] = heartbeat_task_at_join]
    /\ pc' = [pc EXCEPT ![s] = "joined"]
    /\ UNCHANGED <<rooms, reservations, nextId, nEv, lastOp, cancelReq, groups, inbox,
                   relayed, first, outbound, snapshot_sent, recipients, missed, hbStale>>
    /\ UNCHANGED statusVars

\* connect up to accept(): the channel is added to the group before the
\* initial status is computed.
Join(s, k, r, g) ==
    /\ pc[s] = "idle"
    /\ kind' = [kind EXCEPT ![s] = k]
    /\ room_id' = [room_id EXCEPT ![s] = r]
    /\ groups' = [groups EXCEPT ![g] = @ \cup {s}]
    /\ hb' = [hb EXCEPT ![s] = heartbeat_task_at_join]
    /\ pc' = [pc EXCEPT ![s] = "joined"]
    /\ UNCHANGED <<rooms, reservations, nextId, nEv, lastOp, cancelReq, inbox, relayed,
                   first, outbound, snapshot_sent, recipients, missed, hbStale>>
    /\ UNCHANGED statusVars

ConnectRoomToOverviewGroup(s, r) == Join(s, "room", r, OverviewGroup)

\* RoomConsumer.connect up to accept()
ConnectRoom(s, r) == Join(s, "room", r, RoomGroup(r))

\* RoomsOverviewConsumer.connect up to accept()
ConnectOverview(s) == Join(s, "overview", 0, OverviewGroup)

\* get_room_status returns None for a missing or inactive room;
\* get_all_rooms_status always returns a list.
has_status(s) == kind[s] = "overview" \/ rooms[room_id[s]]

SnapshotType(s) == IF kind[s] = "room" THEN "room.status" ELSE "rooms.status"

\* connect, from the initial status on: the snapshot is sent if there is
\* one, then the heartbeat task is created.
ConnectSnapshot(s) ==
    /\ pc[s] = "joined"
    /\ IF has_status(s)
       THEN /\ Sent(s, SnapshotType(s))
            /\ snapshot_sent' = [snapshot_sent EXCEPT ![s] = TRUE]
       ELSE UNCHANGED <<first, outbound, snapshot_sent>>
    /\ hb' = [hb EXCEPT ![s] = "sleep"]
    /\ pc' = [pc EXCEPT ![s] = "open"]
    /\ UNCHANGED <<rooms, reservations, nextId, nEv, lastOp, kind, room_id, cancelReq,
                   groups, inbox, relayed, recipients, missed, hbStale>>
    /\ UNCHANGED statusVars

WireTypeUnchanged == [reservation_created   |-> "reservation_created",
                      reservation_confirmed |-> "reservation_confirmed",
                      reservation_cancelled |-> "reservation_cancelled",
                      reservation_deleted   |-> "reservation_deleted",
                      room_update           |-> "room_update"]

\* The 'type' each handler of a group message puts into the frame it sends.
WireType == [reservation_created   |-> "reservation.created",
             reservation_confirmed |-> "reservation.confirmed",
             reservation_cancelled |-> "reservation.cancelled",
             reservation_deleted   |-> "reservation.deleted",
             room_update           |-> "room.update"]

\* reservation_created .. reservation_deleted and room_update: the consumer
\* takes the next group message of its channel and sends it to the client.
\* A consumer handles one message at a time, connect included.
Relay(s) ==
    /\ pc[s] = "open"
    /\ inbox[s] # <<>>
    /\ LET msg == Head(inbox[s])
       IN  /\ Sent(s, WireType[msg.type])
           /\ relayed' = [relayed EXCEPT ![s] =
                             Append(@, [id |-> msg.id, type |-> WireType[msg.type],
                                        event_type |-> msg.event_type])]
    /\ inbox' = [inbox EXCEPT ![s] = Tail(@)]
    /\ UNCHANGED <<rooms, reservations, nextId, nEv, lastOp, kind, room_id, pc, hb,
                   cancelReq, groups, snapshot_sent, recipients, missed, hbStale>>
    /\ UNCHANGED statusVars

\* send_heartbeat: the sleep ends and the status is computed.
HeartbeatTick(s) ==
    /\ hb[s] = "sleep"
    /\ ~cancelReq[s]
    /\ hb' = [hb EXCEPT ![s] = IF has_status(s) THEN "computed" ELSE "sleep"]
    /\ hbStale' = [hbStale EXCEPT ![s] = FALSE]
    /\ UNCHANGED <<rooms, reservations, nextId, nEv, lastOp, kind, room_id, pc,
                   cancelReq, groups, inbox, relayed, first, outbound, snapshot_sent, recipients,
                   missed>>
    /\ UNCHANGED statusVars

\* send_heartbeat: the computed status is sent as a heartbeat.
HeartbeatSend(s) ==
    /\ hb[s] = "computed"
    /\ ~cancelReq[s]
    /\ Sent(s, "heartbeat")
    /\ missed' = [missed EXCEPT ![s] = IF hbStale[s] THEN @ ELSE FALSE]
    /\ hb' = [hb EXCEPT ![s] = "sleep"]
    /\ UNCHANGED <<rooms, reservations, nextId, nEv, lastOp, kind, room_id, pc,
                   cancelReq, groups, inbox, relayed, snapshot_sent, recipients, hbStale>>
    /\ UNCHANGED statusVars

\* send_heartbeat: the status query or the send raises; only CancelledError
\* is caught, outside the loop, so the task ends with the exception.
HeartbeatRaise(s) ==
    /\ hb[s] \in {"sleep", "computed"}
    /\ ~cancelReq[s]
    /\ hb' = [hb EXCEPT ![s] = "failed"]
    /\ UNCHANGED <<rooms, reservations, nextId, nEv, lastOp, kind, room_id, pc,
                   cancelReq, groups, inbox, relayed, first, outbound, snapshot_sent, recipients,
                   missed, hbStale>>
    /\ UNCHANGED statusVars

\* send_heartbeat: CancelledError arrives at the pending await and is caught.
HeartbeatCancelled(s) ==
    /\ hb[s] \in {"sleep", "computed"}
    /\ cancelReq[s]
    /\ hb' = [hb EXCEPT ![s] = "done"]
    /\ UNCHANGED <<rooms, reservations, nextId, nEv, lastOp, kind, room_id, pc,
                   cancelReq, groups, inbox, relayed, first, outbound, snapshot_sent, recipients,
                   missed, hbStale>>
    /\ UNCHANGED statusVars

\* disconnect: heartbeat_task.cancel(); cancelling a finished task does
\* nothing.
DisconnectCancel(s) ==
    /\ pc[s] = "open"
    /\ cancelReq' = [cancelReq EXCEPT ![s] = hb[s] \in {"sleep", "computed"}]
    /\ pc' = [pc EXCEPT ![s] = "closing"]
    /\ UNCHANGED <<rooms, reservations, nextId, nEv, lastOp, kind, room_id, hb, groups,
                   inbox, relayed, first, outbound, snapshot_sent, recipients, missed, hbStale>>
    /\ UNCHANGED statusVars

heartbeat_not_awaited(h) == TRUE

\* disconnect: "await self.heartbeat_task" returns once the task has ended.
heartbeat_awaited(h) == h \in {"none", "done", "failed"}

\* disconnect, after the await: a task that ended with an exception re-raises
\* it here and the handler ends before group_discard; otherwise the channel
\* leaves its group.  The stopped consumer reads no more of its channel.
DisconnectLeave(s) ==
    /\ pc[s] = "closing"
    /\ heartbeat_awaited(hb[s])
    /\ IF hb[s] = "failed"
       THEN /\ pc' = [pc EXCEPT ![s] = "crashed"]
            /\ UNCHANGED groups
       ELSE /\ pc' = [pc EXCEPT ![s] = "closed"]
            /\ groups' = [groups EXCEPT ![SessionGroup(s)] = @ \ {s}]
    /\ inbox' = [inbox EXCEPT ![s] = <<>>]
    /\ UNCHANGED <<rooms, reservations, nextId, nEv, lastOp, kind, room_id, hb,
                   cancelReq, relayed, first, outbound, snapshot_sent, recipients, missed, hbStale>>
    /\ UNCHANGED statusVars

\* ----------------------------------------------------------- specification
Init ==
    /\ rooms = [r \in Rooms |-> TRUE]
    /\ reservations = <<>>
    /\ nextId = 1
    /\ nEv = 0
    /\ lastOp = NoOp
    /\ kind = [s \in Sessions |-> "none"]
    /\ room_id = [s \in Sessions |-> 0]
    /\ pc = [s \in Sessions |-> "idle"]
    /\ hb = [s \in Sessions |-> "none"]
    /\ cancelReq = [s \in Sessions |-> FALSE]
    /\ groups = [g \in GroupNames |-> {}]
    /\ inbox = [s \in Sessions |-> <<>>]
    /\ relayed = [s \in Sessions |-> <<>>]
    /\ first = [s \in Sessions |-> "none"]
    /\ outbound = [s \in Sessions |-> {}]
    /\ snapshot_sent = [s \in Sessions |-> FALSE]
    /\ recipients = <<>>
    /\ missed = [s \in Sessions |-> FALSE]
    /\ hbStale = [s \in Sessions |-> FALSE]
    /\ clock = [date |-> 1, time |-> 0]
    /\ cache = NoEntry
    /\ status_out = NoAnswer
    /\ status_prev = NoAnswer

\* The REST views and management commands with no WebSocket client
\* connected: single reservations in either room, recurring ones in room 1.
NextDb ==
    \/ \E r \in Rooms, sl \in Slots : Create(r, 1, sl[1], sl[2])
    \/ \E ds \in SUBSET Dates \ {{}}, sl \in Slots : CreateRecurring(1, ds, sl[1], sl[2])
    \/ \E rid \in 1 .. MaxRes : Confirm(rid)
    \/ \E rid \in 1 .. MaxRes, owner \in BOOLEAN : Delete(rid, owner)
    \/ \E k \in 1 .. MaxRes + 1, dry_run \in BOOLEAN : AutoCancel(k, dry_run)
    \/ \E rid \in 1 .. MaxRes, in_window \in BOOLEAN : CheckIn(rid, in_window)
    \/ \E d \in Dates, st \in Times : SendReminders(d, st)

SpecDb == Init /\ [][NextDb]_vars

\* Two WebSocket clients and the fan-out of change events to them, within
\* one heartbeat interval: a reservation of the first slot is asked for in
\* either room while the clients connect, relay and disconnect.
Next ==
    \/ \E s \in Sessions, r \in Rooms : ConnectRoom(s, r)
    \/ \E s \in Sessions : ConnectOverview(s)
    \/ \E s \in Sessions : ConnectSnapshot(s)
    \/ \E s \in Sessions : Relay(s)
    \/ \E s \in Sessions : DisconnectCancel(s)
    \/ \E s \in Sessions : HeartbeatCancelled(s)
    \/ \E s \in Sessions : DisconnectLeave(s)
    \/ \E r \in Rooms : Create(r, 1, 0, 1)

Spec == Init /\ [][Next]_vars

\* The client whose heartbeat task is followed.
Watched == {"s1"}

\* One WebSocket client over many heartbeat intervals, with reservations of
\* the first slot being asked for and rooms being switched on and off
\* meanwhile.
NextHb ==
    \/ \E s \in Watched, r \in Rooms : ConnectRoom(s, r)
    \/ \E s \in Watched : ConnectOverview(s)
    \/ \E s \in Watched : ConnectSnapshot(s)
    \/ \E s \in Watched : Relay(s)
    \/ \E s \in Watched : HeartbeatTick(s)
    \/ \E s \in Watched : HeartbeatSend(s)
    \/ \E s \in Watched : HeartbeatRaise(s)
    \/ \E s \in Watched : HeartbeatCancelled(s)
    \/ \E s \in Watched : DisconnectCancel(s)
    \/ \E s \in Watched : DisconnectLeave(s)
    \/ \E r \in Rooms : Create(r, 1, 0, 1)
    \/ \E r \in Rooms, active \in BOOLEAN : BulkToggleActive({r}, active)
    \/ \E r \in Rooms : DestroyRoom(r, 1)

SpecHb == Init /\ [][NextHb]_vars

\* The event loop runs a heartbeat task that can take a step.
FairSpec ==
    /\ SpecHb
    /\ \A s \in Watched : WF_vars(HeartbeatTick(s)) /\ WF_vars(HeartbeatSend(s))

\* ----------------------------------------------------------------- status
\* The orders the querysets of today's reservations may come in, by room.
TodayOrders ==
    {qs \in [Rooms -> UNION {Perms(S) : S \in SUBSET DOMAIN reservations}] :
        \A r \in Rooms :
            qs[r] \in order_by_start_time(reservations,
                                          today_reservations(reservations, r, clock.date))}

StatusFrame == <<rooms, reservations, nextId, nEv, lastOp, kind, room_id, pc, hb,
                 cancelReq, groups, inbox, relayed, first, outbound, snapshot_sent, recipients,
                 missed, hbStale>>

\* A room session asks for the status of room r (initial snapshot, heartbeat).
GetRoomStatus(r) ==
    /\ \E qs \in TodayOrders :
          status_out' = [op |-> "get_room_status", room |-> r,
                         data |-> get_room_status(reservations, rooms, r, qs[r],
                                                  clock.time),
                         at |-> clock.time, computed_at |-> clock.time,
                         stale |-> FALSE]
    /\ UNCHANGED <<clock, cache, status_prev>>
    /\ UNCHANGED StatusFrame

\* An overview session asks for the status of all rooms (initial snapshot,
\* heartbeat).
GetAllRoomsStatus ==
    /\ \E qs \in TodayOrders :
          status_out' = [op |-> "get_all_rooms_status", room |-> 0,
                         data |-> get_all_rooms_status(reservations, rooms, qs,
                                                       clock.time, 1),
                         at |-> clock.time, computed_at |-> clock.time,
                         stale |-> FALSE]
    /\ UNCHANGED <<clock, cache, status_prev>>
    /\ UNCHANGED StatusFrame

cache_get_unexpiring(entry, now) == TRUE

room_status_uncached(entry, now) == FALSE

\* cache.get('room_status_all'): the entry is returned until it expires.
cache_get(entry, now) == now < entry.expires

\* RoomViewSet.room_status: a truthy cached list is returned as it is;
\* otherwise the list is computed and cached for 30 seconds.
RoomStatusView ==
    /\ IF cache_get(cache, clock.time) /\ cache.data # <<>>
       THEN /\ status_out' = [op |-> "room_status", room |-> 0, data |-> cache.data,
                              at |-> clock.time, computed_at |-> cache.computed_at,
                              stale |-> FALSE]
            /\ UNCHANGED cache
       ELSE \E qs \in TodayOrders :
               LET data == room_statuses(reservations, rooms, qs, clock.time, 1)
               IN  /\ cache' = [data |-> data, computed_at |-> clock.time,
                                expires |-> clock.time + 30]
                   /\ status_out' = [op |-> "room_status", room |-> 0, data |-> data,
                                     at |-> clock.time, computed_at |-> clock.time,
                                     stale |-> FALSE]
    /\ status_prev' = status_out
    /\ UNCHANGED clock
    /\ UNCHANGED StatusFrame

\* Time passes.
Tick(d) ==
    /\ clock.time + d <= MaxClock
    /\ clock' = [clock EXCEPT !.time = @ + d]
    /\ UNCHANGED <<cache, status_out, status_prev>>
    /\ UNCHANGED StatusFrame

\* The tables the classifier is asked about: at most two reservations, with
\* any room, date, status and slot (neither the overlap check nor a check of
\* start < end keeps a table out, see reservation_confirm and create).
StatusRow(r, d, st, sl) ==
    [room |-> r, date |-> d, start_time |-> sl[1], end_time |-> sl[2],
     status |-> st, attendees |-> 1, capacity_used |-> 0, reminder_sent |-> FALSE]

StatusValues == {"pending", "confirmed", "cancelled"}

\* One reservation of room 1 today, asked about at every second.
InitEverySecond ==
    /\ \E st \in StatusValues, sl \in StatusSlots :
          reservations = <<StatusRow(1, 1, st, sl)>>
    /\ clock \in [date : {1}, time : 0 .. MaxSecond]

\* Two reservations, asked about at the instants where a slot starts or ends
\* and just before and after.
InitTwoReservations ==
    /\ \E st1, st2 \in StatusValues, sl1, sl2 \in StatusSlots, r \in Rooms, d \in Dates :
          reservations = <<StatusRow(1, 1, st1, sl1), StatusRow(r, d, st2, sl2)>>
    /\ clock \in [date : {1}, time : StatusInstants]

InitClassify ==
    /\ InitEverySecond \/ InitTwoReservations
    /\ rooms \in [Rooms -> BOOLEAN]
    /\ nextId = Len(reservations) + 1
    /\ nEv = 0
    /\ lastOp = NoOp
    /\ kind = [s \in Sessions |-> "none"]
    /\ room_id = [s \in Sessions |-> 0]
    /\ pc = [s \in Sessions |-> "idle"]
    /\ hb = [s \in Sessions |-> "none"]
    /\ cancelReq = [s \in Sessions |-> FALSE]
    /\ groups = [g \in GroupNames |-> {}]
    /\ inbox = [s \in Sessions |-> <<>>]
    /\ relayed = [s \in Sessions |-> <<>>]
    /\ first = [s \in Sessions |-> "none"]
    /\ outbound = [s \in Sessions |-> {}]
    /\ snapshot_sent = [s \in Sessions |-> FALSE]
    /\ recipients = <<>>
    /\ missed = [s \in Sessions |-> FALSE]
    /\ hbStale = [s \in Sessions |-> FALSE]
    /\ cache = NoEntry
    /\ status_out = NoAnswer
    /\ status_prev = NoAnswer

\* The status of a room computed for a given table at a given instant.
NextClassify == \E r \in Rooms : GetRoomStatus(r)

SpecClassify == InitClassify /\ [][NextClassify]_vars

\* The HTTP status view and its cache while time passes, a reservation of
\* room 1 is made and the rooms are switched off and on.
NextCache ==
    \/ \E d \in TickSteps : Tick(d)
    \/ RoomStatusView
    \/ Create(1, 1, 35, 3600)
    \/ \E active \in BOOLEAN : BulkToggleActive(Rooms, active)

SpecCache == Init /\ [][NextCache]_vars

\* self.reservations.filter(date=..., start_time__lte=now, end_time__gte=now,
\* status='confirmed'), in the default order of Reservation.
ConfirmedNow(r) ==
    {id \in DOMAIN reservations : /\ reservations[id].room = r
                                  /\ reservations[id].date = clock.date
                                  /\ reservations[id].start_time <= clock.time
                                  /\ reservations[id].end_time >= clock.time
                                  /\ reservations[id].status = "confirmed"}

\* RoomSerializer.get_current_occupancy: the occupancy of room r embedded in
\* a serialized reservation.
GetCurrentOccupancy(r) ==
    /\ \E q \in meta_ordering(reservations, ConfirmedNow(r)) :
          status_out' = [op |-> "get_current_occupancy", room |-> r,
                         data |-> Some(get_current_occupancy_status(reservations, q,
                                                                    clock.time)),
                         at |-> clock.time, computed_at |-> clock.time,
                         stale |-> FALSE]
    /\ UNCHANGED <<clock, cache, status_prev>>
    /\ UNCHANGED StatusFrame

\* The tables the copies of the status computation are compared on: two
\* reservations with different attendee counts, asked about at the instants
\* where a slot starts or ends and just before and after.
InitCopies ==
    /\ \E st1, st2 \in StatusValues, sl1, sl2 \in StatusSlots, r \in Rooms :
          reservations = <<StatusRow(1, 1, st1, sl1),
                           [StatusRow(r, 1, st2, sl2) EXCEPT !.attendees = 2]>>
    /\ clock \in [date : {1}, time : StatusInstants]
    /\ rooms \in {[r \in Rooms |-> TRUE], [r \in Rooms |-> r = 1]}
    /\ nextId = Len(reservations) + 1
    /\ nEv = 0
    /\ lastOp = NoOp
    /\ kind = [s \in Sessions |-> "none"]
    /\ room_id = [s \in Sessions |-> 0]
    /\ pc = [s \in Sessions |-> "idle"]
    /\ hb = [s \in Sessions |-> "none"]
    /\ cancelReq = [s \in Sessions |-> FALSE]
    /\ groups = [g \in GroupNames |-> {}]
    /\ inbox = [s \in Sessions |-> <<>>]
    /\ relayed = [s \in Sessions |-> <<>>]
    /\ first = [s \in Sessions |-> "none"]
    /\ outbound = [s \in Sessions |-> {}]
    /\ snapshot_sent = [s \in Sessions |-> FALSE]
    /\ recipients = <<>>
    /\ missed = [s \in Sessions |-> FALSE]
    /\ hbStale = [s \in Sessions |-> FALSE]
    /\ cache = NoEntry
    /\ status_out = NoAnswer
    /\ status_prev = NoAnswer

\* The status of one table at one instant, asked for through each path.
NextCopies ==
    \/ \E r \in Rooms : GetRoomStatus(r)
    \/ GetAllRoomsStatus
    \/ RoomStatusView
    \/ \E r \in Rooms : GetCurrentOccupancy(r)

SpecCopies == InitCopies /\ [][NextCopies]_vars

\* POST reservations with these request bodies, while the first reservation
\* is confirmed or auto-cancelled and room 1 is switched off and on.
NextCreate ==
    \/ \E data \in CreateRequests : CreateRequest(data)
    \/ Confirm(1)
    \/ AutoCancel(2, FALSE)
    \/ \E active \in BOOLEAN : BulkToggleActive({1}, active)

SpecCreate == Init /\ [][NextCreate]_vars

\* The status of all rooms, over HTTP and for overview sessions, while rooms
\* are switched off and on, a room is soft-deleted and reservations are made.
NextRooms ==
    \/ RoomStatusView
    \/ GetAllRoomsStatus
    \/ \E ids \in SUBSET Rooms, active \in BOOLEAN : BulkToggleActive(ids, active)
    \/ \E r \in Rooms : DestroyRoom(r, 1)
    \/ \E r \in Rooms : Create(r, 2, 0, 3600)

SpecRooms == Init /\ [][NextRooms]_vars

\* One WebSocket client while a reservation of room 1 is made, confirmed,
\* auto-cancelled and deleted: every kind of change event is relayed.
NextRelay ==
    \/ \E s \in Watched, r \in Rooms : ConnectRoom(s, r)
    \/ \E s \in Watched : ConnectOverview(s)
    \/ \E s \in Watched : ConnectSnapshot(s)
    \/ \E s \in Watched : Relay(s)
    \/ \E s \in Watched : HeartbeatTick(s)
    \/ \E s \in Watched : HeartbeatSend(s)
    \/ \E s \in Watched : DisconnectCancel(s)
    \/ \E s \in Watched : HeartbeatCancelled(s)
    \/ \E s \in Watched : DisconnectLeave(s)
    \/ Create(1, 1, 0, 1)
    \/ Confirm(1)
    \/ Delete(1, TRUE)
    \/ AutoCancel(2, FALSE)

SpecRelay == Init /\ [][NextRelay]_vars

\* -------------------------------------------------------------- properties
\* C1: an Open session that lost the publish of a mutation in its scope is
\* later sent a heartbeat computed at or after that mutation, unless it
\* stops being Open.
C1_HeartbeatCoversLostPublish ==
    \A s \in Sessions :
        (pc[s] = "open" /\ missed[s]) ~> (pc[s] # "open" \/ ~missed[s])

\* C2: a session that has left its group has a heartbeat task that was
\* cancelled and has ended; the task can take no further tick and send no
\* further heartbeat.
C2_NoHeartbeatAfterLeave ==
    \A s \in Sessions :
        pc[s] = "closed" =>
            /\ hb[s] = "done"
            /\ ~ENABLED HeartbeatTick(s)
            /\ ~ENABLED HeartbeatSend(s)

\* C2 happens: a session whose snapshot was sent has left its group.
C2_Witness ==
    \E s \in Sessions :
        pc[s] = "closed" /\ snapshot_sent[s] /\ s \notin groups[SessionGroup(s)]

\* C3: the first outbound message of a session is its initial snapshot.
C3_SnapshotIsFirstMessage ==
    \A s \in Sessions : first[s] # "none" => first[s] = SnapshotType(s)

\* C14: a heartbeat tick that raised has stopped neither the relay of events
\* nor the timer: an Open session still relays what is queued for it and its
\* heartbeat task can still tick or send.
C14_HeartbeatFailureIsolated ==
    \A s \in Sessions :
        pc[s] = "open" =>
            /\ inbox[s] # <<>> => ENABLED Relay(s)
            /\ ENABLED HeartbeatTick(s) \/ ENABLED HeartbeatSend(s)

\* C15: once the disconnect handling of a session has run, its channel is in
\* no group.
C15_ClosedSessionInNoGroup ==
    \A s \in Sessions :
        pc[s] \in {"closed", "crashed"} => \A g \in GroupNames : s \notin groups[g]

\* C16: a room session is never Open without a snapshot: a status request that
\* met a missing or inactive room was signalled as an error and the session
\* did not go on silently.
C16_NotFoundIsSignalled ==
    \A s \in Sessions :
        kind[s] = "room" /\ pc[s] \in {"open", "closing", "closed", "crashed"} =>
            snapshot_sent[s]

\* The groups a session's channel is a member of.
Memberships(s) == {g \in GroupNames : s \in groups[g]}

\* C17: from its connect until its disconnect handling ends, a session is a
\* member of exactly one group: the group of its room for a room session, the
\* overview group for an overview session.
C17_ExactlyOneGroup ==
    \A s \in Sessions :
        pc[s] \in {"joined", "open", "closing"} => Memberships(s) = {SessionGroup(s)}

\* C17 happens: a room session and an overview session are Open together.
C17_Witness ==
    \E s, t \in Sessions :
        /\ pc[s] = "open" /\ kind[s] = "room" /\ Memberships(s) = {RoomGroup(room_id[s])}
        /\ pc[t] = "open" /\ kind[t] = "overview" /\ Memberships(t) = {OverviewGroup}

\* C18: a session relays events in the order they were published: the event
\* ids it has relayed increase, and what is queued for it follows, in order.
C18_RelayedInPublishOrder ==
    \A s \in Sessions :
        LET q == [k \in 1 .. Len(relayed[s]) |-> relayed[s][k].id]
                 \o [k \in 1 .. Len(inbox[s]) |-> inbox[s][k].id]
        IN  \A i, j \in 1 .. Len(q) : i < j => q[i] < q[j]

\* C18 happens: one session has relayed two events.
C18_Witness ==
    \E s \in Sessions :
        /\ Len(relayed[s]) = 2
        /\ relayed[s][1].id < relayed[s][2].id

\* The snapshot of the last single-room status request, when there is one.
Answered == status_out.op = "get_room_status" /\ status_out.data # Nothing
Snapshot == status_out.data[1]

\* The pending or confirmed reservations of the asked room and of today whose
\* slot holds the instant of the request, both ends included.
Holding ==
    {id \in DOMAIN reservations :
        /\ reservations[id].room = status_out.room
        /\ reservations[id].date = clock.date
        /\ reservations[id].status \in {"pending", "confirmed"}
        /\ reservations[id].start_time <= status_out.at
        /\ status_out.at <= reservations[id].end_time}

\* C11 as stated: an occupied room is 'ending_soon' exactly when the reported
\* minute count is at most 15, and 'occupied' otherwise.
C11_EndingSoonIffReportedAtMost15 ==
    Answered /\ Snapshot.is_occupied =>
        /\ Snapshot.occupancy_status \in {"ending_soon", "occupied"}
        /\ Snapshot.occupancy_status = "ending_soon" <=> Snapshot.time_until_free[1] <= 15

\* C11 amended: an occupied room is 'ending_soon' exactly when at most 900
\* seconds remain until the end of the current reservation, and 'occupied'
\* otherwise; so a reported 14 or less is 'ending_soon' and 16 or more is
\* 'occupied'.
C11_EndingSoonIffAtMost900Seconds ==
    Answered /\ Snapshot.is_occupied =>
        /\ Snapshot.occupancy_status \in {"ending_soon", "occupied"}
        /\ \E id \in Holding :
              Snapshot.occupancy_status = "ending_soon"
                  <=> reservations[id].end_time - status_out.at <= 900
        /\ Snapshot.time_until_free[1] <= 14 => Snapshot.occupancy_status = "ending_soon"
        /\ Snapshot.time_until_free[1] >= 16 => Snapshot.occupancy_status = "occupied"

\* C11 happens: exactly 15 minutes remain and the room is 'ending_soon'.
C11_Witness ==
    /\ Answered
    /\ Snapshot.is_occupied
    /\ Snapshot.time_until_free = Some(15)
    /\ Snapshot.occupancy_status = "ending_soon"

\* C12: a room is occupied at an instant if and only if a pending or confirmed
\* reservation of that room and of that date has start <= now <= end.
C12_OccupiedIffHolding ==
    Answered => (Snapshot.is_occupied <=> Holding # {})

\* C12 happens: the room is occupied at the very end of a reservation.
C12_Witness ==
    /\ Answered
    /\ Snapshot.is_occupied
    /\ \A id \in Holding : reservations[id].end_time = status_out.at

\* C13 as stated: two room_status requests less than the TTL apart, with no
\* write between them, are answered alike.
C13_SameAnswerWithinTTL ==
    /\ status_out.op = "room_status"
    /\ status_prev.op = "room_status"
    /\ ~status_prev.stale
    /\ status_out.at - status_prev.at < 30
    => status_out.data = status_prev.data

\* C13 amended: a room_status request made, with no write in between, before
\* the cache entry behind the previous answer expires is answered like the
\* previous one.
C13_SameAnswerWhileEntryLive ==
    /\ status_out.op = "room_status"
    /\ status_prev.op = "room_status"
    /\ ~status_prev.stale
    /\ status_out.at < status_prev.computed_at + 30
    => status_out.data = status_prev.data

\* C13 happens: a second request is answered from the cache some seconds
\* after the first, the room's reservation having started meanwhile.
C13_Witness ==
    /\ status_out.op = "room_status"
    /\ status_prev.op = "room_status"
    /\ ~status_prev.stale
    /\ status_out.data # <<>>
    /\ status_prev.at < 35
    /\ status_out.at >= 35
    /\ status_out.at < status_prev.computed_at + 30
    /\ DOMAIN reservations # {}

\* The second of the day an "HH:MM" value names.
HMSeconds(hm) == hm[1] * 3600 + hm[2] * 60

\* The start times after the instant of the request, among the pending or
\* confirmed reservations of the asked room and of today.
LaterStarts ==
    {reservations[id].start_time : id \in
        {k \in DOMAIN reservations :
            /\ reservations[k].room = status_out.room
            /\ reservations[k].date = clock.date
            /\ reservations[k].status \in {"pending", "confirmed"}
            /\ reservations[k].start_time > status_out.at}}

\* C19 as stated: next_available is the end time of the current reservation
\* when the room is occupied, else the earliest later start time, else null.
C19_NextAvailableIsEndOrNextStart ==
    Answered =>
        IF Snapshot.is_occupied
        THEN /\ Snapshot.next_available # Nothing
             /\ \E id \in Holding :
                   HMSeconds(Snapshot.next_available[1]) = reservations[id].end_time
        ELSE IF LaterStarts # {}
        THEN /\ Snapshot.next_available # Nothing
             /\ HMSeconds(Snapshot.next_available[1]) = Min(LaterStarts)
        ELSE Snapshot.next_available = Nothing

\* C19 amended: next_available is the hour and minute (seconds dropped) of the
\* end time of the current reservation when the room is occupied, else of the
\* earliest later start time, else null.
C19_NextAvailableIsMinuteOfEndOrNextStart ==
    Answered =>
        IF Snapshot.is_occupied
        THEN /\ Snapshot.next_available # Nothing
             /\ \E id \in Holding :
                   HMSeconds(Snapshot.next_available[1])
                       = reservations[id].end_time - (reservations[id].end_time % 60)
        ELSE IF LaterStarts # {}
        THEN /\ Snapshot.next_available # Nothing
             /\ HMSeconds(Snapshot.next_available[1])
                   = Min(LaterStarts) - (Min(LaterStarts) % 60)
        ELSE Snapshot.next_available = Nothing

\* C19 happens: a free room with two reservations later today, the earlier
\* one starting 30 seconds into a minute.
C19_Witness ==
    /\ Answered
    /\ ~Snapshot.is_occupied
    /\ LaterStarts = {30, 960}
    /\ Snapshot.next_available = Some(<<0, 0>>)

\* C20: time_until_free is null for a free room; for an occupied room it is
\* the whole number of minutes m with m * 60 <= end - now < (m + 1) * 60, under
\* either occupancy class.
C20_MinutesUntilFreeIsFloor ==
    Answered =>
        IF ~Snapshot.is_occupied
        THEN Snapshot.time_until_free = Nothing
        ELSE /\ Snapshot.time_until_free # Nothing
             /\ \E id \in Holding :
                   LET left == reservations[id].end_time - status_out.at
                       m    == Snapshot.time_until_free[1]
                   IN  m * 60 <= left /\ left < (m + 1) * 60

\* C20 happens: 15 minutes and some seconds remain, reported as 15 for a room
\* still classed 'occupied'.
C20_Witness ==
    /\ Answered
    /\ Snapshot.is_occupied
    /\ Snapshot.time_until_free = Some(15)
    /\ Snapshot.occupancy_status = "occupied"

\* The copies of event i the session has relayed, and those still queued.
Delivered(s, i) == Cardinality({k \in 1 .. Len(relayed[s]) : relayed[s][k].id = i})
Queued(s, i) == Cardinality({k \in 1 .. Len(inbox[s]) : inbox[s][k].id = i})

\* C5: every session relays a published event at most once; a session that
\* was not subscribed to a target group when the event was published relays
\* it never; a subscriber that is still connected has relayed it once or holds
\* the one copy to relay, whatever the other sessions did; and the publishing
\* request sees no error.
C5_FanOutExactlyOnce ==
    /\ lastOp.response # "error"
    /\ \A s \in Sessions, i \in 1 .. nEv :
          /\ Delivered(s, i) <= 1
          /\ s \notin recipients[i] => Delivered(s, i) = 0
          /\ s \in recipients[i] /\ pc[s] \in {"joined", "open"} =>
                Delivered(s, i) + Queued(s, i) = 1

\* C5 happens: two sessions on one room have each relayed the same event,
\* and another event of another room reached neither.
C5_Witness ==
    \E i, j \in 1 .. nEv :
        /\ \A s \in Sessions : kind[s] = "room" /\ Delivered(s, i) = 1
        /\ \A s \in Sessions : Delivered(s, j) = 0 /\ s \notin recipients[j]

LastEvents == {lastOp.events[i] : i \in 1 .. Len(lastOp.events)}

Persisted ==
    \A rid \in lastOp.saved :
        CASE lastOp.op \in {"create", "recurring"} ->
                rid \in DOMAIN reservations /\ reservations[rid].status = "pending"
          [] lastOp.op = "confirm" ->
                rid \in DOMAIN reservations /\ reservations[rid].status = "confirmed"
          [] lastOp.op = "auto_cancel" ->
                rid \in DOMAIN reservations /\ reservations[rid].status = "cancelled"
          [] lastOp.op = "delete" -> rid \notin DOMAIN reservations
          [] OTHER -> rid \in DOMAIN reservations

\* C4: when a group send raises during a publish, the request or command
\* that made the change still answers successfully and its insert, status
\* update or delete is in the database.
C4_BroadcastFailureSwallowed ==
    (\E e \in LastEvents : e.raised) => lastOp.response = "ok" /\ Persisted

C4_Witness ==
    /\ lastOp.op = "delete"
    /\ lastOp.response = "ok"
    /\ \E e \in LastEvents : e.raised /\ e.event_type = "deleted"

\* C6 as stated: no publish sends the event to one of the two groups and not
\* to the other.
C6_BothGroupsOrNeither ==
    \A e \in LastEvents : (RoomGroup(e.room) \in e.sent) <=> (OverviewGroup \in e.sent)

\* C6 amended: a publish whose sends do not raise reaches both groups; the
\* overview group is never sent an event the room group was not sent; a
\* publish that raises has not reached the overview group.
C6_BothGroupsUnlessSendRaises ==
    \A e \in LastEvents :
        /\ ~e.raised => e.sent = {RoomGroup(e.room), OverviewGroup}
        /\ OverviewGroup \in e.sent => RoomGroup(e.room) \in e.sent
        /\ e.raised => OverviewGroup \notin e.sent

C6_Witness ==
    \E e \in LastEvents :
        e.event_type = "deleted" /\ e.sent = {RoomGroup(e.room), OverviewGroup}

ExpectedEvent == [create |-> "created", recurring |-> "created",
                  confirm |-> "confirmed", auto_cancel |-> "cancelled",
                  delete |-> "deleted"]

\* C7: an insert, a confirmation, an auto-cancellation and a delete emit, for
\* every reservation they write, exactly one event, of the matching type.
C7_OneEventPerMutation ==
    lastOp.op \in DOMAIN ExpectedEvent /\ lastOp.response = "ok" =>
        /\ Len(lastOp.events) = Cardinality(lastOp.saved)
        /\ \A rid \in lastOp.saved : \E e \in LastEvents : e.rid = rid
        /\ \A e \in LastEvents :
              e.rid \in lastOp.saved /\ e.event_type = ExpectedEvent[lastOp.op]

C7_Witness ==
    /\ lastOp.op = "auto_cancel"
    /\ Cardinality(lastOp.saved) = 2
    /\ Len(lastOp.events) = 2

\* C8: a save that neither inserts a reservation nor changes its status
\* emits no change event.
C8_NoEventWithoutStatusChange ==
    lastOp.op \in {"check_in", "reminders"} =>
        \A e \in LastEvents : e.rid \in lastOp.changed

\* C9: no two pending or confirmed reservations of one room and date overlap.
NonOverlap(res, S) ==
    \A a, b \in S : a # b =>
        ~(res[a].start_time < res[b].end_time /\ res[b].start_time < res[a].end_time)

C9_NoOverlappingReservations ==
    \A r \in Rooms, d \in Dates :
        NonOverlap(reservations, today_reservations(reservations, r, d))

RoomIds(data) == [i \in 1 .. Len(data) |-> data[i].room_id]

\* An answer about all rooms that no write has followed.
AllRoomsAnswer ==
    /\ status_out.op \in {"room_status", "get_all_rooms_status"}
    /\ ~status_out.stale

C22_CacheNeverServedAfterTTL ==
    status_out.op = "room_status" =>
        /\ status_out.computed_at <= status_out.at
        /\ status_out.at - status_out.computed_at <= 30
        /\ status_out.computed_at < status_out.at =>
              status_out.at < status_out.computed_at + 30

\* C22 happens: an answer is taken from the cache 25 seconds after it was
\* computed, the same entry having been served at an earlier request.
C22_Witness ==
    /\ status_out.op = "room_status"
    /\ status_out.at - status_out.computed_at = 25
    /\ status_prev.op = "room_status"
    /\ status_prev.at < status_out.at
    /\ status_prev.computed_at = status_out.computed_at

RoomSessionTypes == {"room.status", "heartbeat", "reservation.created",
                     "reservation.confirmed", "reservation.cancelled",
                     "reservation.deleted"}

OverviewSessionTypes == {"rooms.status", "heartbeat", "room.update"}

\* "reservation." followed by the event type.
ReservationDot == [created   |-> "reservation.created",
                   confirmed |-> "reservation.confirmed",
                   cancelled |-> "reservation.cancelled",
                   deleted   |-> "reservation.deleted"]

\* C23: a room session is sent only room.status, heartbeat and
\* reservation.<event>; an overview session only rooms.status, heartbeat and
\* room.update; an event of type e is relayed to a room session as
\* reservation.e and to an overview session as room.update; no session is
\* sent an error frame.
C23_OutboundTypes ==
    \A s \in Sessions :
        /\ kind[s] = "room" => outbound[s] \subseteq RoomSessionTypes
        /\ kind[s] = "overview" => outbound[s] \subseteq OverviewSessionTypes
        /\ kind[s] = "none" => outbound[s] = {}
        /\ "error" \notin outbound[s]
        /\ \A k \in 1 .. Len(relayed[s]) :
              /\ relayed[s][k].type \in outbound[s]
              /\ relayed[s][k].type = IF kind[s] = "room"
                                      THEN ReservationDot[relayed[s][k].event_type]
                                      ELSE "room.update"

\* C23 happens: a room session has been sent its snapshot, a heartbeat and the
\* four kinds of reservation event.
C23_Witness ==
    \E s \in Sessions : kind[s] = "room" /\ outbound[s] = RoomSessionTypes

\* The reservations created before the cutoff: those with a key below k.
CreatedBefore(k) == {id \in DOMAIN reservations : id < k}

\* C24: auto_cancel_pending sets to cancelled exactly the pending reservations
\* created before the cutoff and leaves every other reservation as it was; with
\* --dry-run no reservation changes and no change event is emitted.
C24_AutoCancelFrame ==
    [][\A k \in 1 .. MaxRes + 1, dry_run \in BOOLEAN :
          lastOp'.op = "auto_cancel" /\ AutoCancel(k, dry_run) =>
             IF dry_run
             THEN /\ reservations' = reservations
                  /\ nEv' = nEv
                  /\ inbox' = inbox
                  /\ lastOp'.events = <<>>
             ELSE /\ DOMAIN reservations' = DOMAIN reservations
                  /\ \A id \in DOMAIN reservations :
                        IF reservations[id].status = "pending" /\ id \in CreatedBefore(k)
                        THEN /\ reservations'[id].status = "cancelled"
                             /\ reservations'[id]
                                  = [reservations[id] EXCEPT !.status = "cancelled"]
                        ELSE reservations'[id] = reservations[id]]_vars

\* C24 happens: the command cancelled the older pending reservation and left a
\* confirmed one and a more recent pending one as they were.
C24_Witness ==
    /\ lastOp.op = "auto_cancel"
    /\ lastOp.response = "ok"
    /\ lastOp.saved # {}
    /\ \E a, b \in DOMAIN reservations :
          /\ a \in lastOp.saved /\ reservations[a].status = "cancelled"
          /\ b \notin lastOp.saved /\ reservations[b].status \in {"pending", "confirmed"}

\* C25: 'cancelled' is terminal: no operation gives a cancelled reservation
\* the status pending or confirmed.
C25_CancelledIsTerminal ==
    [][\A id \in DOMAIN reservations :
          reservations[id].status = "cancelled" /\ id \in DOMAIN reservations' =>
              reservations'[id].status = "cancelled"]_vars

\* C26: within one publish the send to the room group is called first and
\* the send to the overview group is called only when the first did not
\* raise; so an event that reached the overview group has reached the room
\* group before.
C26_RoomSendBeforeOverviewSend ==
    \A e \in LastEvents :
        /\ e.attempted \in {<<>>, <<RoomGroup(e.room)>>,
                             <<RoomGroup(e.room), OverviewGroup>>}
        /\ Len(e.attempted) = 2 => RoomGroup(e.room) \in e.sent
        /\ RoomGroup(e.room) \notin e.sent => OverviewGroup \notin e.sent
        /\ \A i \in 1 .. Len(e.attempted) :
              e.attempted[i] = OverviewGroup =>
                 \E j \in 1 .. i - 1 : e.attempted[j] = RoomGroup(e.room)

\* C26 happens: of two publishes of one command, one sent to the room group
\* and then to the overview group, and one raised at the room group and did
\* not call the overview send.
C26_Witness ==
    \E e, f \in LastEvents :
        /\ e.attempted = <<RoomGroup(e.room), OverviewGroup>>
        /\ e.sent = {RoomGroup(e.room), OverviewGroup}
        /\ f.raised
        /\ f.attempted = <<RoomGroup(f.room)>>
        /\ f.sent = {}

\* The events a session has relayed or holds in its queue.
Held(inb, rel, s) ==
    {inb[s][m].id : m \in 1 .. Len(inb[s])} \cup {rel[s][m].id : m \in 1 .. Len(rel[s])}

\* C27: a session is in its group before its initial snapshot is computed and
\* as long as it is Open; every event in its scope that is published while it
\* is connecting or Open, the send to its group not raising, is queued for it,
\* and what is queued for a session that stays Open is not dropped but relayed.
C27_NoGapAfterSnapshot ==
    /\ [](\A s \in Sessions :
            pc[s] \in {"joined", "open"} => s \in groups[SessionGroup(s)])
    /\ [][/\ nEv' > nEv =>
               \A k \in 1 .. Len(lastOp'.events) :
                  \A s \in Sessions :
                     /\ pc[s] \in {"joined", "open"}
                     /\ InScope(s, lastOp'.events[k])
                     /\ SessionGroup(s) \in lastOp'.events[k].sent
                     => lastOp'.events[k].id \in Held(inbox', relayed', s)
          /\ \A s \in Sessions :
                pc[s] \in {"joined", "open"} /\ pc'[s] \in {"joined", "open"} =>
                   Held(inbox, relayed, s) \subseteq Held(inbox', relayed', s)]_vars

\* C27 happens: an Open session whose first message was its snapshot has
\* relayed one event and holds the next in its queue.
C27_Witness ==
    \E s \in Sessions :
        /\ pc[s] = "open"
        /\ snapshot_sent[s]
        /\ first[s] = SnapshotType(s)
        /\ Len(relayed[s]) = 1
        /\ Len(inbox[s]) = 1
        /\ relayed[s][1].id < inbox[s][1].id

\* The snapshots of the last status answer.
Snapshots ==
    IF status_out.op = "get_room_status"
    THEN {status_out.data[i] : i \in 1 .. Len(status_out.data)}
    ELSE IF status_out.op \in {"get_all_rooms_status", "room_status"}
    THEN {status_out.data[i] : i \in 1 .. Len(status_out.data)}
    ELSE {}

\* C28: for one room, table, instant and order of the rows the room session's
\* snapshot, the overview session's entry and the HTTP entry are the same in
\* is_occupied, occupancy_status, time_until_free, reservations_today,
\* next_available and current_attendees; so every snapshot that one path
\* answers is what the other two compute.
C28_StatusCopiesAgree ==
    /\ \A qs \in TodayOrders, r \in Rooms :
          LET a == room_status_entry(reservations, r, qs[r], clock.time)
              b == all_rooms_status_entry(reservations, r, qs[r], clock.time)
              c == room_status_view_entry(reservations, r, qs[r], clock.time)
          IN  a = b /\ b = c
    /\ \A e \in Snapshots :
          \E qs \in TodayOrders :
             /\ e = room_status_entry(reservations, e.room_id, qs[e.room_id], clock.time)
             /\ e = all_rooms_status_entry(reservations, e.room_id, qs[e.room_id],
                                           clock.time)
             /\ e = room_status_view_entry(reservations, e.room_id, qs[e.room_id],
                                           clock.time)

\* C28 happens: an overview answer holds a room at the last instant of its
\* current reservation, with two reservations today.
C28_Witness ==
    /\ status_out.op = "get_all_rooms_status"
    /\ \E e \in Snapshots :
          /\ e.is_occupied
          /\ e.time_until_free = Some(0)
          /\ e.reservations_today = 2
          /\ e.current_attendees = 2

\* C29: the occupancy embedded in a room payload says 'occupied' exactly when
\* the status snapshot of that room at that instant says is_occupied.
C29_EmbeddedOccupancyAgrees ==
    status_out.op = "get_current_occupancy" =>
        \A qs \in TodayOrders :
            status_out.data[1].occupied
               = room_status_entry(reservations, status_out.room, qs[status_out.room],
                                   clock.time).is_occupied

\* A pending or confirmed reservation of the room and date asked for has
\* start < the new end and end > the new start.
Conflicts(data) ==
    \E id \in DOMAIN reservations :
        /\ reservations[id].room = data.room_id[1]
        /\ reservations[id].date = data.date[1]
        /\ reservations[id].status \in {"pending", "confirmed"}
        /\ reservations[id].start_time < data.end_time[1]
        /\ reservations[id].end_time > data.start_time[1]

\* C30: a create without a room id, for an unknown or inactive room, without
\* a required field, or overlapping a pending or confirmed reservation of the
\* room and date is rejected; a rejected create leaves the reservations as
\* they were and emits no event; an accepted create overlaps no pending or
\* confirmed reservation of its room and date.
C30_RejectedCreateChangesNothing ==
    [][\A data \in CreateRequests :
          lastOp'.op = "create" /\ CreateRequest(data) =>
             LET invalid == \/ data.room_id = Nothing
                            \/ data.room_id[1] \notin Rooms
                            \/ ~rooms[data.room_id[1]]
                            \/ ~all_required(data)
             IN  /\ invalid => lastOp'.response = "rejected"
                 /\ ~invalid /\ Conflicts(data) => lastOp'.response = "rejected"
                 /\ lastOp'.response = "rejected" =>
                       /\ reservations' = reservations
                       /\ nextId' = nextId
                       /\ nEv' = nEv
                       /\ inbox' = inbox
                       /\ lastOp'.events = <<>>
                 /\ lastOp'.response # "rejected" =>
                       /\ ~invalid
                       /\ ~Conflicts(data)
                       /\ DOMAIN reservations' = DOMAIN reservations \cup {nextId}]_vars

\* C30 happens: a create was rejected while room 1 holds a cancelled
\* reservation and a pending one accepted beside it in an overlapping slot.
C30_Witness ==
    /\ lastOp.op = "create"
    /\ lastOp.response = "rejected"
    /\ \A r \in Rooms : rooms[r]
    /\ DOMAIN reservations = {1, 2}
    /\ reservations[1].status = "cancelled"
    /\ reservations[2].status = "pending"
    /\ reservations[1].room = reservations[2].room
    /\ reservations[1].start_time < reservations[2].end_time
    /\ reservations[2].start_time < reservations[1].end_time

====
